---- MODULE Spec2Model ----
(***************************************************************************)
(* Model of webapp/static/main.js: the browser-side orchestrator of the    *)
(* analyze / apply / cross-check workflow.  Every async handler is cut at  *)
(* its await points: one action issues a fetch and suspends, the next      *)
(* resumes with the response (ok, ok=false, or a rejected promise) and     *)
(* runs the handler up to its next await or its end.                       *)
(***************************************************************************)
EXTENDS Integers, Sequences, FiniteSets, TLC

\* ---------------------------------------------------------------- bounds
\* Texts are 0..MaxText; 0 is the empty string (falsy in JavaScript).
MaxText == 2
\* Longest edit sequence a service returns or the operator types.
MaxEdits == 1
\* Number of distinct cross-check reports the service may answer with.
MaxReport == 1
\* Number of times the capture button is pressed.
MaxCaptures == 2
\* Longest string in a report, in chunks, and most tests in a report, that
\* the presenter is exercised on.
MaxStrLen == 1
MaxTests == 2

Texts == 0..MaxText
\* Two handler invocations: the least number that can overlap.
RunIds == {1, 2}

\* ------------------------------------------------------ JavaScript values
\* The value of an `edits` property: absent (undefined/null), a truthy value
\* that is not an array, or an array of edits.
Absent == [t |-> "absent", items |-> <<>>]
NonSeq == [t |-> "nonseq", items |-> <<>>]
SeqOf(n) == [t |-> "seq", items |-> [i \in 1..n |-> i]]
EditsValues == {Absent, NonSeq} \cup {SeqOf(n) : n \in 0..MaxEdits}

Truthy(ev) == ev.t # "absent"
IsArray(ev) == ev.t = "seq"

\* A response field that holds (or should hold) an object with an `edits`
\* property: undefined, null, or an object.
Undef == [c |-> "undef", edits |-> Absent]
Null == [c |-> "null", edits |-> Absent]
Obj(ev) == [c |-> "obj", edits |-> ev]
Containers == {Undef, Null} \cup {Obj(ev) : ev \in EditsValues}

\* The text of the edits textarea, by what JSON.parse makes of it.
TextEmpty == [doc |-> "empty", edits |-> Absent]
TextInvalid == [doc |-> "invalid", edits |-> Absent]
TextNull == [doc |-> "null", edits |-> Absent]
TextObj(ev) == [doc |-> "obj", edits |-> ev]
PanelTexts == {TextEmpty, TextInvalid, TextNull} \cup {TextObj(ev) : ev \in EditsValues}

\* JSON.stringify(value, null, 2) assigned to textarea.value: undefined becomes
\* the text "undefined", which is not JSON.
Stringify(c) ==
  CASE c.c = "undef" -> TextInvalid
    [] c.c = "null" -> TextNull
    [] OTHER -> TextObj(c.edits)

\* JSON.parse(text || '{}'): a syntax error, null, or an object.
JSONParse(text) ==
  CASE text.doc = "empty" -> [res |-> "obj", edits |-> Absent]
    [] text.doc = "invalid" -> [res |-> "syntaxerror", edits |-> Absent]
    [] text.doc = "null" -> [res |-> "null", edits |-> Absent]
    [] OTHER -> [res |-> "obj", edits |-> text.edits]

\* x || []
OrEmpty(ev) == IF Truthy(ev) THEN ev ELSE SeqOf(0)

\* ------------------------------------------------------ cross-check report
\* A string is a sequence of chunks: a letter, a blank, or a piece of markup.
Chars == {"a", " ", "<b>"}
Strings == UNION {[1..n -> Chars] : n \in 0..MaxStrLen}

\* The i-th report the cross-check service may answer with: i tests, the
\* first passing and the others failing.
Report(i) ==
  [overall |-> IF i = 1 THEN "pass" ELSE "fail",
   pass |-> 1, fail |-> i - 1, summary |-> <<"a">>,
   tests |-> [k \in 1..i |->
               [name |-> <<"a">>, description |-> <<"a">>,
                status |-> IF k = 1 THEN "pass" ELSE "fail", reason |-> <<"a">>]]]
Reports == {Report(i) : i \in 1..MaxReport}
NoReport == [overall |-> "", pass |-> 0, fail |-> 0, summary |-> <<>>, tests |-> <<>>]

\* x || d on strings: the empty string is falsy
OrString(x, d) == IF x = <<>> THEN d ELSE x

\* String.prototype.toLowerCase on the words a report uses
toLowerCase(w) ==
  CASE w = "PASS" -> "pass" [] w = "FAIL" -> "fail" [] w = "MIXED" -> "mixed"
    [] OTHER -> w

\* String.prototype.trim
trim(str) ==
  LET solid == {i \in 1..Len(str) : str[i] # " "}
  IN IF solid = {} THEN <<>>
     ELSE SubSeq(str, CHOOSE i \in solid : \A j \in solid : i <= j,
                      CHOOSE i \in solid : \A j \in solid : i >= j)

\* escapeHtml(str): the characters & < > " become entities, so a piece of
\* markup becomes text
escapeHtmlNothing(str) == str
escapeHtml(str) ==
  [i \in 1..Len(str) |-> IF str[i] = "<b>" THEN "&lt;b&gt;" ELSE str[i]]

\* textContent of an element whose innerHTML was set to html: a tag becomes
\* an element and contributes no text, entities are decoded
textContent(html) ==
  LET text == SelectSeq(html, LAMBDA c : c # "<b>")
  IN [i \in 1..Len(text) |-> IF text[i] = "&lt;b&gt;" THEN "<b>" ELSE text[i]]

\* A count label: the text `${n} passed`; n = -1 stands for a label with no
\* leading number.
Label(n, suffix) == [n |-> n, suffix |-> suffix]
EmptyDisplay ==
  [badge |-> "", badgeClass |-> {"badge"},
   countPass |-> Label(-1, ""), countFail |-> Label(-1, ""),
   summary |-> <<>>, tests |-> <<>>, open |-> FALSE]
\* renderCrosscheck(payload), lines 194-195: list.innerHTML = '' and
\* badge.className = 'badge'
ResetDisplay(d) == [d EXCEPT !.tests = <<>>, !.badgeClass = {"badge"}]

\* lines 197-220: the badge, the two count labels, the summary, one <li> per
\* test appended to the list, openCrossModal()
RenderInto(d, payload) ==
  LET overall == toLowerCase(IF payload.overall = "" THEN "mixed" ELSE payload.overall)
      li(t) ==
        [dot |-> {"dot", toLowerCase(IF t.status = "" THEN "fail" ELSE t.status)},
         name |-> textContent(escapeHtml(OrString(t.name, <<"T", "e", "s", "t">>))),
         desc |-> textContent(escapeHtml(t.description)),
         reason |-> textContent(escapeHtml(t.reason))]
  IN [d EXCEPT
        !.badge = overall,
        !.badgeClass = @ \cup {IF overall \in {"pass", "fail"} THEN overall ELSE "mixed"},
        !.countPass = Label(payload.pass, "passed"),
        !.countFail = Label(payload.fail, "failed"),
        !.summary = payload.summary,
        !.tests = @ \o [k \in 1..Len(payload.tests) |-> li(payload.tests[k])],
        !.open = TRUE]

renderCrosscheckNoReset(d, payload) == RenderInto(d, payload)
renderCrosscheck(d, payload) == RenderInto(ResetDisplay(d), payload)

\* parseInt(text, 10) || 0
ParseCount(label) == IF label.n < 0 THEN 0 ELSE label.n

\* The payload fixUsingCross rebuilds from the DOM (lines 228-246).
ExtractCross(d) ==
  [overall |-> d.badge, summary |-> trim(d.summary),
   pass |-> ParseCount(d.countPass), fail |-> ParseCount(d.countFail),
   tests |-> [k \in 1..Len(d.tests) |->
               [name |-> trim(d.tests[k].name), description |-> trim(d.tests[k].desc),
                status |-> IF "pass" \in d.tests[k].dot THEN "pass" ELSE "fail",
                reason |-> trim(d.tests[k].reason)]]]

\* The reports the presenter is exercised on: every overall verdict, every
\* summary and up to MaxTests tests of every name, description, status and
\* reason; the counts are those of the tests.
Tests == [name : Strings, description : Strings, status : {"pass", "fail"},
          reason : Strings]
PresenterReports ==
  {[overall |-> o, summary |-> sm, tests |-> ts,
    pass |-> Cardinality({k \in 1..Len(ts) : ts[k].status = "pass"}),
    fail |-> Cardinality({k \in 1..Len(ts) : ts[k].status = "fail"})] :
      o \in {"pass", "fail", "mixed"}, sm \in Strings,
      ts \in UNION {[1..n -> Tests] : n \in 0..MaxTests}}

\* ------------------------------------------------------- service responses
\* What resuming from `await fetch(...)` / `await res.json()` can deliver: a
\* rejected promise ("throw"), a body with ok falsy ("fail"), or ok with the
\* service's fields.
Resp(out, code, edits, report) ==
  [out |-> out, code |-> code, edits |-> edits, report |-> report]
Failures == {Resp("throw", 0, Undef, NoReport), Resp("fail", 0, Undef, NoReport)}
AnalyzeResponses == Failures \cup {Resp("ok", 0, c, NoReport) : c \in Containers}
ApplyResponses == Failures \cup {Resp("ok", t, Undef, NoReport) : t \in Texts}
CrossResponses == Failures \cup {Resp("ok", 0, Undef, rep) : rep \in Reports}
\* fixUsingCross and analyzeWithVision only test `data.edits` for truthiness.
FixResponses ==
  Failures \cup {Resp("ok", t, c, NoReport) : t \in Texts, c \in {Undef, Obj(SeqOf(MaxEdits))}}
\* visionSubmit never reads the `code` field of the vision response.
VisionSubmitResponses == Failures \cup {Resp("ok", 0, c, NoReport) : c \in Containers}
RunResponses == Failures \cup {Resp("ok", 0, Undef, NoReport)}

\* ------------------------------------------------------------------ state
VARIABLES
  editorText,           \* editor.getValue(): the SourceText
  editsPanel,           \* document.getElementById('edits').value
  notify,               \* the #notify element: its text and its hidden class
  display,              \* the cross-check modal
  lastScreenshotBase64, \* 0 is null, 1 an image payload
  run,                  \* per invocation: handler, await point, locals
  log,                  \* per invocation: what it has done so far
  overlapped,           \* per invocation: another one was in flight with it
  foreignWrite,         \* per invocation: someone else wrote the editor meanwhile
  capture,              \* captureScreenShot(): its await point and how it last ended
  captures,             \* how many times captureScreenShot() was called
  liveTracks,           \* display-capture tracks obtained and not stopped
  presenter             \* the modal exercised alone: what was rendered, what was read back

captureVars == <<capture, captures, liveTracks>>
vars == <<editorText, editsPanel, notify, display, lastScreenshotBase64,
          run, log, overlapped, foreignWrite, captureVars, presenter>>

Kinds == {"analyze", "applyFixes", "fixUsingCross", "analyzeWithVision", "visionSubmit"}

IdleRun ==
  [kind |-> "none", pc |-> "idle", code |-> 0, edits |-> Absent, image |-> 0,
   end |-> "", hiddenAtEnd |-> FALSE]

\* nothing rendered yet, nothing read back
NoExtract == [overall |-> "none"]
FreshPresenter ==
  [stage |-> "fresh", prior |-> NoReport, payload |-> NoReport, extracted |-> NoExtract]

InFlight(r) == run[r].pc \notin {"idle", "done"}
Ended(r) == run[r].pc = "done"

\* ---------------------------------------------------------------- events
Ev(ev, svc, out, code, edits) ==
  [ev |-> ev, svc |-> svc, out |-> out, code |-> code, edits |-> edits,
   image |-> 0, cross |-> NoReport]
ReqEv(svc, code, edits) == Ev("req", svc, "", code, edits)
ReqImageEv(svc, code, image) == [ReqEv(svc, code, Absent) EXCEPT !.image = image]
ReqCrossEv(svc, code, cross) == [ReqEv(svc, code, Absent) EXCEPT !.cross = cross]
RespEv(svc, resp) ==
  Ev("resp", svc, resp.out, resp.code,
     IF resp.edits.c = "obj" THEN resp.edits.edits ELSE Absent)
ReadEv(text) == Ev("read", text.doc, "", 0, text.edits)
WriteEv(code) == Ev("write", "editor", "", code, Absent)
PanelEv == Ev("panel", "edits", "", 0, Absent)
AlertEv(msg) == Ev("alert", msg, "", 0, Absent)
ShowEv(msg) == Ev("show", msg, "", 0, Absent)
HideEv == Ev("hide", "", "", 0, Absent)
RenderEv == Ev("render", "", "", 0, Absent)

\* showNotify(msg) / hideNotify()
showNotifyTextOnly(msg) == [text |-> msg, hidden |-> TRUE]
showNotify(msg) == [text |-> msg, hidden |-> FALSE]
hideNotify(n) == [n EXCEPT !.hidden = TRUE]

Init ==
  /\ editorText \in Texts
  /\ editsPanel = TextEmpty
  /\ notify = [text |-> "", hidden |-> TRUE]
  /\ display = EmptyDisplay
  /\ lastScreenshotBase64 = 0
  /\ run = [r \in RunIds |-> IdleRun]
  /\ log = [r \in RunIds |-> <<>>]
  /\ overlapped = [r \in RunIds |-> FALSE]
  /\ foreignWrite = [r \in RunIds |-> FALSE]
  /\ capture = [pc |-> "idle", end |-> ""]
  /\ captures = 0
  /\ liveTracks = 0
  /\ presenter = FreshPresenter

\* One step of invocation r between two await points: its new locals, what it
\* did, and the page state it leaves.
Do(r, rec, events, ed, pan, nf, disp) ==
  LET wrote == \E i \in 1..Len(events) : events[i].ev = "write"
      fin == rec.pc = "done"
      others == {q \in RunIds \ {r} : InFlight(q)}
  IN /\ run' = [run EXCEPT ![r] =
                  IF fin THEN [rec EXCEPT !.hiddenAtEnd = nf.hidden] ELSE rec]
     /\ log' = [log EXCEPT ![r] = @ \o events]
     /\ editorText' = ed
     /\ editsPanel' = pan
     /\ notify' = nf
     /\ display' = disp
     /\ overlapped' = [q \in RunIds |->
                         overlapped[q]
                           \/ (~fin /\ others # {} /\ (q = r \/ q \in others))]
     /\ foreignWrite' = [q \in RunIds |->
                           foreignWrite[q] \/ (wrote /\ q \in others)]
     /\ UNCHANGED <<lastScreenshotBase64, captureVars, presenter>>

Startable(r) == run[r].pc = "idle" /\ \A q \in 1..(r - 1) : run[q].pc # "idle"
Start(kind, pc) == [IdleRun EXCEPT !.kind = kind, !.pc = pc, !.code = editorText]
At(r, kind, pc) == run[r].kind = kind /\ run[r].pc = pc
Return(r) == [run[r] EXCEPT !.pc = "done", !.end = "return"]
Throw(r) == [run[r] EXCEPT !.pc = "done", !.end = "exception"]
Goto(r, pc) == [run[r] EXCEPT !.pc = pc]

\* The tail every handler but visionSubmit shares: `await res.json()` of the
\* cross-check inside try, `if (data.ok) renderCrosscheck(data)`, an empty
\* catch, and `finally { hideNotify(); }`.
CrossCheckTailNoFinally(r, resp) ==
  IF resp.out = "ok"
  THEN Do(r, Return(r), <<RespEv("crosscheck", resp), RenderEv, HideEv>>,
          editorText, editsPanel, hideNotify(notify), renderCrosscheck(display, resp.report))
  ELSE Do(r, Return(r), <<RespEv("crosscheck", resp)>>,
          editorText, editsPanel, notify, display)

\* variant: puts the invocation's snapshot back once the cross-check answered
CrossCheckTailRestores(r, resp) ==
  Do(r, Return(r), <<RespEv("crosscheck", resp), WriteEv(run[r].code), HideEv>>,
     run[r].code, editsPanel, hideNotify(notify), display)

\* variant: asks for the cross-check again when it did not answer ok
CrossCheckTailRetries(r, resp) ==
  IF resp.out = "ok"
  THEN Do(r, Return(r), <<RespEv("crosscheck", resp), RenderEv, HideEv>>,
          editorText, editsPanel, hideNotify(notify), renderCrosscheck(display, resp.report))
  ELSE Do(r, run[r], <<RespEv("crosscheck", resp), ReqEv("crosscheck", editorText, Absent)>>,
          editorText, editsPanel, notify, display)

CrossCheckTail(r, resp) ==
  IF resp.out = "ok"
  THEN Do(r, Return(r), <<RespEv("crosscheck", resp), RenderEv, HideEv>>,
          editorText, editsPanel, hideNotify(notify), renderCrosscheck(display, resp.report))
  ELSE Do(r, Return(r), <<RespEv("crosscheck", resp), HideEv>>,
          editorText, editsPanel, hideNotify(notify), display)

\* -------------------------------------------------------------- analyze()
\* const edits = (data.result && data.result.edits) ? data.result.edits : [];
AnalyzeEdits(result) ==
  IF result.c = "obj" /\ Truthy(result.edits) THEN result.edits ELSE SeqOf(0)

\* Array.isArray(edits) && edits.length > 0
ShouldApplyAnyArray(edits) == IsArray(edits)
ShouldApply(edits) == IsArray(edits) /\ Len(edits.items) > 0

\* if (!data.ok)
NotOkIgnored(resp) == FALSE
NotOk(resp) == resp.out = "fail"

\* body of the cross-check request that follows a successful apply
CrossCheckCodeStale(snapshot, applied) == snapshot
CrossCheckCode(snapshot, applied) == applied

analyze(r) ==
  /\ Startable(r)
  /\ Do(r, Start("analyze", "await_analyze"),
        <<ShowEv("Analyzing"), ReqEv("analyze", editorText, Absent)>>,
        editorText, editsPanel, showNotify("Analyzing"), display)

analyzeResume(r) ==
  /\ At(r, "analyze", "await_analyze")
  /\ \E resp \in AnalyzeResponses :
       LET edits == AnalyzeEdits(resp.edits) IN
       IF resp.out = "throw"
       THEN Do(r, Throw(r), <<RespEv("analyze", resp)>>,
               editorText, editsPanel, notify, display)
       ELSE IF NotOk(resp)
       THEN Do(r, Return(r),
               <<RespEv("analyze", resp), HideEv, AlertEv("Analyze error")>>,
               editorText, editsPanel, hideNotify(notify), display)
       ELSE IF ShouldApply(edits)
       THEN Do(r, [Goto(r, "await_apply") EXCEPT !.edits = edits],
               <<RespEv("analyze", resp), HideEv, PanelEv, ShowEv("Applying fixes"),
                 ReqEv("apply", run[r].code, edits)>>,
               editorText, Stringify(resp.edits), showNotify("Applying fixes"), display)
       ELSE Do(r, [Goto(r, "await_crosscheck") EXCEPT !.edits = edits],
               <<RespEv("analyze", resp), HideEv, PanelEv, ShowEv("Cross-checking"),
                 ReqEv("crosscheck", run[r].code, Absent)>>,
               editorText, Stringify(resp.edits), showNotify("Cross-checking"), display)

analyzeApplyResume(r) ==
  /\ At(r, "analyze", "await_apply")
  /\ \E resp \in ApplyResponses :
       IF resp.out = "ok"
       THEN Do(r, Goto(r, "await_crosscheck"),
               <<RespEv("apply", resp), WriteEv(resp.code), ShowEv("Cross-checking"),
                 ReqEv("crosscheck", CrossCheckCode(run[r].code, resp.code), Absent)>>,
               resp.code, editsPanel, showNotify("Cross-checking"), display)
       ELSE Do(r, Return(r), <<RespEv("apply", resp), HideEv>>,
               editorText, editsPanel, hideNotify(notify), display)

analyzeCrossResume(r) ==
  /\ At(r, "analyze", "await_crosscheck")
  /\ \E resp \in CrossResponses : CrossCheckTail(r, resp)

\* ----------------------------------------------------------- applyFixes()
\* the catch around JSON.parse
ParseFailedIgnored(parsed) == FALSE
ParseFailed(parsed) == parsed.res = "syntaxerror"

\* The operator leaves the edits textarea as the last handler wrote it, or
\* types another text, and clicks Apply.
applyFixes(r) ==
  /\ Startable(r)
  /\ \E text \in PanelTexts :
       LET parsed == JSONParse(text)
           edits == OrEmpty(parsed.edits)
       IN IF ParseFailed(parsed)
          THEN Do(r, [Start("applyFixes", "done") EXCEPT !.end = "return"],
                  <<ReadEv(text), AlertEv("Invalid JSON in Edits.")>>,
                  editorText, text, notify, display)
          ELSE IF parsed.res = "null"
          THEN Do(r, [Start("applyFixes", "done") EXCEPT !.end = "exception"],
                  <<ReadEv(text)>>,
                  editorText, text, notify, display)
          ELSE Do(r, [Start("applyFixes", "await_apply") EXCEPT !.edits = edits],
                  <<ReadEv(text), ReqEv("apply", editorText, edits)>>,
                  editorText, text, notify, display)

applyFixesResume(r) ==
  /\ At(r, "applyFixes", "await_apply")
  /\ \E resp \in ApplyResponses :
       IF resp.out = "throw"
       THEN Do(r, Throw(r), <<RespEv("apply", resp)>>,
               editorText, editsPanel, notify, display)
       ELSE IF NotOk(resp)
       THEN Do(r, Return(r), <<RespEv("apply", resp), AlertEv("Apply error")>>,
               editorText, editsPanel, notify, display)
       ELSE Do(r, Goto(r, "await_crosscheck"),
               <<RespEv("apply", resp), WriteEv(resp.code), ShowEv("Cross-checking"),
                 ReqEv("crosscheck", CrossCheckCode(run[r].code, resp.code), Absent)>>,
               resp.code, editsPanel, showNotify("Cross-checking"), display)

applyFixesCrossResume(r) ==
  /\ At(r, "applyFixes", "await_crosscheck")
  /\ \E resp \in CrossResponses : CrossCheckTail(r, resp)

\* -------------------------------------------------------- fixUsingCross()
\* if (data.code) / if (data.edits)
HasCodeAlways(resp) == TRUE
HasCode(resp) == resp.code # 0
HasEdits(resp) == resp.edits.c = "obj"

fixUsingCross(r) ==
  /\ Startable(r)
  /\ Do(r, Start("fixUsingCross", "await_fix"),
        <<ShowEv("Fixing using cross-check"),
          ReqCrossEv("fix_from_crosscheck", editorText, ExtractCross(display))>>,
        editorText, editsPanel, showNotify("Fixing using cross-check"), display)

fixUsingCrossResume(r) ==
  /\ At(r, "fixUsingCross", "await_fix")
  /\ \E resp \in FixResponses :
       LET ed == IF HasCode(resp) THEN resp.code ELSE editorText
           pan == IF HasEdits(resp) THEN Stringify(resp.edits) ELSE editsPanel
       IN
       IF resp.out = "throw"
       THEN Do(r, Return(r), <<RespEv("fix_from_crosscheck", resp), HideEv>>,
               editorText, editsPanel, hideNotify(notify), display)
       ELSE IF NotOk(resp)
       THEN Do(r, Return(r),
               <<RespEv("fix_from_crosscheck", resp), AlertEv("Fix error"), HideEv>>,
               editorText, editsPanel, hideNotify(notify), display)
       ELSE Do(r, Goto(r, "await_crosscheck"),
               <<RespEv("fix_from_crosscheck", resp)>>
                 \o (IF HasCode(resp) THEN <<WriteEv(resp.code)>> ELSE <<>>)
                 \o (IF HasEdits(resp) THEN <<PanelEv>> ELSE <<>>)
                 \o <<ShowEv("Cross-checking updated code"),
                      ReqEv("crosscheck", ed, Absent)>>,
               ed, pan, showNotify("Cross-checking updated code"), display)

fixUsingCrossCrossResume(r) ==
  /\ At(r, "fixUsingCross", "await_crosscheck")
  /\ \E resp \in CrossResponses : CrossCheckTail(r, resp)

\* ---------------------------------------------------- analyzeWithVision()
analyzeWithVision(r) ==
  /\ Startable(r)
  /\ \E hasFile \in BOOLEAN :
       IF hasFile
       THEN Do(r, Start("analyzeWithVision", "await_file"), <<>>,
               editorText, editsPanel, notify, display)
       ELSE Do(r, Start("analyzeWithVision", "await_vision"),
               <<ShowEv("Vision analyzing"), ReqImageEv("vision_analyze", editorText, 0)>>,
               editorText, editsPanel, showNotify("Vision analyzing"), display)

\* resuming from `await fileToBase64(file)`: the reader loads or errors
analyzeWithVisionFileResume(r) ==
  /\ At(r, "analyzeWithVision", "await_file")
  /\ \E loaded \in BOOLEAN :
       IF loaded
       THEN Do(r, [Goto(r, "await_vision") EXCEPT !.image = 1],
               <<ShowEv("Vision analyzing"), ReqImageEv("vision_analyze", run[r].code, 1)>>,
               editorText, editsPanel, showNotify("Vision analyzing"), display)
       ELSE Do(r, Throw(r), <<>>, editorText, editsPanel, notify, display)

analyzeWithVisionResume(r) ==
  /\ At(r, "analyzeWithVision", "await_vision")
  /\ \E resp \in FixResponses :
       LET ed == IF HasCode(resp) THEN resp.code ELSE editorText
           pan == IF HasEdits(resp) THEN Stringify(resp.edits) ELSE editsPanel
       IN
       IF resp.out = "throw"
       THEN Do(r, Return(r), <<RespEv("vision_analyze", resp), HideEv>>,
               editorText, editsPanel, hideNotify(notify), display)
       ELSE IF NotOk(resp)
       THEN Do(r, Return(r),
               <<RespEv("vision_analyze", resp), AlertEv("Vision analyze error"), HideEv>>,
               editorText, editsPanel, hideNotify(notify), display)
       ELSE Do(r, Goto(r, "await_crosscheck"),
               <<RespEv("vision_analyze", resp)>>
                 \o (IF HasEdits(resp) THEN <<PanelEv>> ELSE <<>>)
                 \o (IF HasCode(resp) THEN <<WriteEv(resp.code)>> ELSE <<>>)
                 \o <<ShowEv("Cross-checking (post-vision)"),
                      ReqEv("crosscheck", ed, Absent)>>,
               ed, pan, showNotify("Cross-checking (post-vision)"), display)

analyzeWithVisionCrossResume(r) ==
  /\ At(r, "analyzeWithVision", "await_crosscheck")
  /\ \E resp \in CrossResponses : CrossCheckTail(r, resp)

\* --------------------------------------------------------- visionSubmit()
\* visData.edits && Array.isArray(visData.edits.edits) && visData.edits.edits.length
VisionHasEdits(resp) ==
  resp.edits.c = "obj" /\ IsArray(resp.edits.edits) /\ Len(resp.edits.edits.items) > 0

visionSubmit(r) ==
  /\ Startable(r)
  /\ Do(r, [Start("visionSubmit", "await_run") EXCEPT !.image = lastScreenshotBase64],
        <<ReqEv("run", editorText, Absent)>>,
        editorText, editsPanel, notify, display)

visionSubmitRunResume(r) ==
  /\ At(r, "visionSubmit", "await_run")
  /\ \E resp \in RunResponses :
       IF resp.out = "throw"
       THEN Do(r, Throw(r), <<RespEv("run", resp)>>,
               editorText, editsPanel, notify, display)
       ELSE Do(r, Goto(r, "await_vision"),
               <<RespEv("run", resp)>>
                 \o (IF NotOk(resp) THEN <<ShowEv("Run error")>> ELSE <<>>)
                 \o <<ShowEv("Comparing UI with screenshot"),
                      ReqImageEv("vision_analyze", run[r].code, run[r].image)>>,
               editorText, editsPanel, showNotify("Comparing UI with screenshot"), display)

visionSubmitVisionResume(r) ==
  /\ At(r, "visionSubmit", "await_vision")
  /\ \E resp \in VisionSubmitResponses :
       IF resp.out = "throw"
       THEN Do(r, Throw(r), <<RespEv("vision_analyze", resp)>>,
               editorText, editsPanel, notify, display)
       ELSE IF NotOk(resp)
       THEN Do(r, Return(r),
               <<RespEv("vision_analyze", resp), HideEv, AlertEv("Vision analyze error")>>,
               editorText, editsPanel, hideNotify(notify), display)
       ELSE IF VisionHasEdits(resp)
       THEN Do(r, [Goto(r, "await_apply") EXCEPT !.edits = resp.edits.edits],
               <<RespEv("vision_analyze", resp), PanelEv,
                 ReqEv("apply", run[r].code, resp.edits.edits)>>,
               editorText, Stringify(resp.edits), notify, display)
       ELSE Do(r, Return(r),
               <<RespEv("vision_analyze", resp),
                 ShowEv("No changes suggested from vision."), HideEv>>,
               editorText, editsPanel,
               hideNotify(showNotify("No changes suggested from vision.")), display)

visionSubmitApplyResume(r) ==
  /\ At(r, "visionSubmit", "await_apply")
  /\ \E resp \in ApplyResponses :
       IF resp.out = "throw"
       THEN Do(r, Throw(r), <<RespEv("apply", resp)>>,
               editorText, editsPanel, notify, display)
       ELSE IF resp.out = "ok" /\ HasCode(resp)
       THEN Do(r, Return(r),
               <<RespEv("apply", resp), WriteEv(resp.code),
                 ShowEv("Applied vision-based fixes."), HideEv>>,
               resp.code, editsPanel,
               hideNotify(showNotify("Applied vision-based fixes.")), display)
       ELSE IF NotOk(resp)
       THEN Do(r, Return(r), <<RespEv("apply", resp), AlertEv("Apply error"), HideEv>>,
               editorText, editsPanel, hideNotify(notify), display)
       ELSE Do(r, Return(r), <<RespEv("apply", resp), HideEv>>,
               editorText, editsPanel, hideNotify(notify), display)

\* ------------------------------------------------------ captureScreenShot()
\* The handler is one try block: `await getDisplayMedia(...)`, the track,
\* `new ImageCapture(track)`, `await imageCapture.grabFrame()`, the canvas and
\* toDataURL, `lastScreenshotBase64 = ...`, `track.stop()`,
\* `showNotify('Screenshot captured.')`; its catch alerts 'Screenshot failed'.
runsVars == <<editorText, editsPanel, display, run, log, overlapped, foreignWrite>>

captureScreenShot ==
  /\ capture.pc = "idle"
  /\ captures < MaxCaptures
  /\ captures' = captures + 1
  /\ \E api \in {"present", "missing"} :
       \* navigator.mediaDevices.getDisplayMedia may not exist: a TypeError,
       \* caught at once
       capture' = IF api = "present"
                  THEN [pc |-> "await_stream", end |-> ""]
                  ELSE [pc |-> "idle", end |-> "failed"]
  /\ UNCHANGED <<runsVars, notify, lastScreenshotBase64, liveTracks, presenter>>

\* getDisplayMedia settles: refused, or a stream whose track is live; without
\* the ImageCapture constructor the handler fails right after the grant.
captureStreamResume ==
  /\ capture.pc = "await_stream"
  /\ \E out \in {"refused", "granted", "no_image_capture"} :
       /\ capture' = IF out = "granted"
                     THEN [pc |-> "await_frame", end |-> ""]
                     ELSE [pc |-> "idle", end |-> "failed"]
       /\ liveTracks' = IF out = "refused" THEN liveTracks ELSE liveTracks + 1
  /\ UNCHANGED <<runsVars, notify, lastScreenshotBase64, captures, presenter>>

\* grabFrame settles: the frame is drawn, encoded and stored and the track
\* stopped, or grabFrame rejected or the canvas threw and only the catch ran.
captureFrameResume ==
  /\ capture.pc = "await_frame"
  /\ \E out \in {"frame", "throw"} :
       IF out = "frame"
       THEN /\ lastScreenshotBase64' = 1
            /\ liveTracks' = liveTracks - 1
            /\ notify' = showNotify("Screenshot captured.")
            /\ capture' = [pc |-> "idle", end |-> "captured"]
       ELSE /\ capture' = [pc |-> "idle", end |-> "failed"]
            /\ UNCHANGED <<lastScreenshotBase64, liveTracks, notify>>
  /\ UNCHANGED <<runsVars, captures, presenter>>

Next ==
  \/ \E r \in RunIds :
       \/ analyze(r) \/ analyzeResume(r) \/ analyzeApplyResume(r) \/ analyzeCrossResume(r)
       \/ applyFixes(r) \/ applyFixesResume(r) \/ applyFixesCrossResume(r)
       \/ fixUsingCross(r) \/ fixUsingCrossResume(r) \/ fixUsingCrossCrossResume(r)
       \/ analyzeWithVision(r) \/ analyzeWithVisionFileResume(r)
       \/ analyzeWithVisionResume(r) \/ analyzeWithVisionCrossResume(r)
       \/ visionSubmit(r) \/ visionSubmitRunResume(r)
       \/ visionSubmitVisionResume(r) \/ visionSubmitApplyResume(r)

Spec == Init /\ [][Next]_vars

\* The continuation of invocation r after an `await`: it runs once the
\* awaited promise settles, whatever the page does meanwhile.
Resume(r) ==
  \/ analyzeResume(r) \/ analyzeApplyResume(r) \/ analyzeCrossResume(r)
  \/ applyFixesResume(r) \/ applyFixesCrossResume(r)
  \/ fixUsingCrossResume(r) \/ fixUsingCrossCrossResume(r)
  \/ analyzeWithVisionFileResume(r)
  \/ analyzeWithVisionResume(r) \/ analyzeWithVisionCrossResume(r)
  \/ visionSubmitRunResume(r)
  \/ visionSubmitVisionResume(r) \/ visionSubmitApplyResume(r)

\* The page with the capture button and the vision-compare button only.
NextCapture ==
  \/ captureScreenShot \/ captureStreamResume \/ captureFrameResume
  \/ \E r \in RunIds :
       \/ visionSubmit(r) \/ visionSubmitRunResume(r)
       \/ visionSubmitVisionResume(r) \/ visionSubmitApplyResume(r)

SpecCapture == Init /\ [][NextCapture]_vars

\* ------------------------------------------------- the presenter on its own
\* renderCrosscheck and the read-back of fixUsingCross applied to reports the
\* services of the workflows above never send.
restVars == <<editorText, editsPanel, notify, lastScreenshotBase64,
              run, log, overlapped, foreignWrite, captureVars>>

\* an earlier cross-check left its report in the modal
presenterRenderPrior ==
  /\ presenter.stage = "fresh"
  /\ \E q \in Reports :
       /\ display' = renderCrosscheck(display, q)
       /\ presenter' = [presenter EXCEPT !.stage = "prior", !.prior = q]
  /\ UNCHANGED restVars

\* renderCrosscheck(payload)
presenterRender ==
  /\ presenter.stage \in {"fresh", "prior"}
  /\ \E payload \in PresenterReports :
       /\ display' = renderCrosscheck(display, payload)
       /\ presenter' = [presenter EXCEPT !.stage = "rendered", !.payload = payload]
  /\ UNCHANGED restVars

\* renderCrosscheck(payload) once more with the same payload
presenterRenderAgain ==
  /\ presenter.stage = "rendered"
  /\ presenter.extracted = NoExtract
  /\ display' = renderCrosscheck(display, presenter.payload)
  /\ presenter' = [presenter EXCEPT !.stage = "rerendered"]
  /\ UNCHANGED restVars

\* lines 228-246 of fixUsingCross
presenterExtract ==
  /\ presenter.stage = "rendered"
  /\ presenter.extracted = NoExtract
  /\ presenter' = [presenter EXCEPT !.extracted = ExtractCross(display)]
  /\ UNCHANGED <<restVars, display>>

NextPresenter ==
  \/ presenterRenderPrior \/ presenterRender
  \/ presenterRenderAgain \/ presenterExtract

InitPresenter == Init /\ editorText = 0

SpecPresenter == InitPresenter /\ [][NextPresenter]_vars

\* Every awaited promise eventually settles (fulfilled or rejected).
SpecFair == Spec /\ \A r \in RunIds : WF_vars(Resume(r))

\* ================================================================= claims
Idx(r) == 1..Len(log[r])
IsReq(e, svc) == e.ev = "req" /\ e.svc = svc
IsResp(e, svc, outs) == e.ev = "resp" /\ e.svc = svc /\ e.out \in outs
ReqsAfter(r, i) == {j \in Idx(r) : j > i /\ log[r][j].ev = "req"}
\* the events the step being taken appends to r's log
NewIdx(r) == (Len(log[r]) + 1)..Len(log'[r])

\* C1: in every handler, a replacement of the editor's text by a
\* service-returned text is followed, in the same invocation, by a
\* cross-check request before the invocation ends.
C1_WriteFollowedByCrossCheck ==
  \A r \in RunIds :
    Ended(r) =>
      \A i \in Idx(r) :
        log[r][i].ev = "write" =>
          \E j \in ReqsAfter(r, i) : log[r][j].svc = "crosscheck"

\* C2: in analyze() and applyFixes(), after an apply response ok with text T
\* the next request of the invocation is the cross-check and its code is T.
C2_CrossCheckCarriesAppliedText ==
  \A r \in RunIds :
    run[r].kind \in {"analyze", "applyFixes"} =>
      \A i \in Idx(r) :
        IsResp(log[r][i], "apply", {"ok"}) =>
          \E j \in ReqsAfter(r, i) :
            /\ \A k \in ReqsAfter(r, i) : j <= k
            /\ log[r][j].svc = "crosscheck"
            /\ log[r][j].code = log[r][i].code

\* an apply answered with a text other than the snapshot that was sent, and
\* the cross-check of it requested
C2_Witness ==
  \E r \in RunIds :
    /\ run[r].kind = "analyze"
    /\ \E i \in Idx(r) :
         /\ IsResp(log[r][i], "apply", {"ok"})
         /\ log[r][i].code # run[r].code
         /\ \E j \in ReqsAfter(r, i) : log[r][j].svc = "crosscheck"

\* C3: when analyze succeeds with an edits value that is absent, not a
\* sequence or an empty sequence, the invocation requests no apply, writes no
\* text, and requests exactly one cross-check, on the snapshot sent to analyze.
NoEditsAnalyzed(r) ==
  /\ run[r].kind = "analyze"
  /\ \E i \in Idx(r) :
       /\ IsResp(log[r][i], "analyze", {"ok"})
       /\ (log[r][i].edits.t # "seq" \/ log[r][i].edits.items = <<>>)

C3_NoEditsGoesStraightToCrossCheck ==
  \A r \in RunIds :
    NoEditsAnalyzed(r) =>
      /\ \A i \in Idx(r) : ~IsReq(log[r][i], "apply") /\ log[r][i].ev # "write"
      /\ Cardinality({i \in Idx(r) : IsReq(log[r][i], "crosscheck")}) = 1
      /\ \A i \in Idx(r) :
           IsReq(log[r][i], "crosscheck") =>
             \E a \in Idx(r) :
               IsReq(log[r][a], "analyze") /\ log[r][a].code = log[r][i].code

C3_Witness ==
  \E r \in RunIds :
    /\ NoEditsAnalyzed(r)
    /\ Ended(r)
    /\ editorText # run[r].code

\* C4: an invocation that no other invocation overlapped and that showed a
\* status message ends with the status element hidden.
C4_SignalHiddenAtEnd ==
  \A r \in RunIds :
    (Ended(r) /\ ~overlapped[r] /\ \E i \in Idx(r) : log[r][i].ev = "show")
      => run[r].hiddenAtEnd

\* C5: in analyze() and applyFixes(), when the cross-check that follows an
\* apply answered ok with T fails (ok=false or a rejected promise), the step
\* that ends the invocation leaves the editor's text as it is, which is T
\* unless another invocation wrote it meanwhile, renders nothing, leaves the
\* modal as it was and hides the status element.
CrossCheckFailsAfterApply(r) ==
  /\ run[r].kind \in {"analyze", "applyFixes"}
  /\ \E i \in Idx(r) : IsResp(log[r][i], "apply", {"ok"})
  /\ \E j \in NewIdx(r) : IsResp(log'[r][j], "crosscheck", {"fail", "throw"})

C5_CrossCheckFailureKeepsAppliedText ==
  [][\A r \in RunIds :
       CrossCheckFailsAfterApply(r) =>
         /\ run'[r].pc = "done"
         /\ editorText' = editorText
         /\ (~foreignWrite[r] =>
               \E i \in Idx(r) :
                 IsResp(log[r][i], "apply", {"ok"}) /\ editorText' = log[r][i].code)
         /\ \A j \in NewIdx(r) : log'[r][j].ev \notin {"render", "write"}
         /\ display' = display
         /\ notify'.hidden]_vars

\* an invocation ended by a failed cross-check after a successful apply,
\* with an earlier report still displayed
C5_Witness ==
  \E r \in RunIds :
    /\ Ended(r)
    /\ run[r].kind \in {"analyze", "applyFixes"}
    /\ \E i \in Idx(r) : IsResp(log[r][i], "apply", {"ok"}) /\ log[r][i].code # run[r].code
    /\ IsResp(log[r][Len(log[r]) - 1], "crosscheck", {"fail", "throw"})
    /\ display.open

\* C6: applyFixes() rejects, with a local error (an alert, or the exception
\* that reading `edits` of null throws) and without an apply request, a text
\* that parses (the empty text included) but is not an object whose `edits`
\* is a sequence.
C6_MalformedEditsRejected ==
  \A r \in RunIds :
    (/\ run[r].kind = "applyFixes"
     /\ log[r][1].svc \in {"empty", "null", "obj"}
     /\ ~(log[r][1].svc = "obj" /\ log[r][1].edits.t = "seq"))
      => /\ \/ \E i \in Idx(r) : log[r][i].ev = "alert"
            \/ run[r].end = "exception"
         /\ \A i \in Idx(r) : ~IsReq(log[r][i], "apply")

\* C7: when the edits text does not parse, applyFixes() ends in the step that
\* read it, with the alert, no request, and the editor's text, the modal and
\* the status element untouched.
ReadsUnparsable(r) ==
  /\ run[r].pc = "idle"
  /\ run'[r].kind = "applyFixes"
  /\ log'[r][1].ev = "read" /\ log'[r][1].svc = "invalid"

C7_ParseFailureIsLocal ==
  [][\A r \in RunIds :
       ReadsUnparsable(r) =>
         /\ run'[r].pc = "done"
         /\ \E j \in NewIdx(r) : log'[r][j] = AlertEv("Invalid JSON in Edits.")
         /\ \A j \in NewIdx(r) : log'[r][j].ev # "req"
         /\ editorText' = editorText
         /\ display' = display
         /\ notify' = notify]_vars

C7_Witness ==
  \E r \in RunIds :
    /\ run[r].kind = "applyFixes"
    /\ Ended(r)
    /\ log[r][1].ev = "read" /\ log[r][1].svc = "invalid"
    /\ ~notify.hidden

\* C8: in every handler that requests an apply, an apply answered ok=false
\* is followed by an alert, by no further request and by no write.
C8_ApplyFailureSurfaced ==
  \A r \in RunIds :
    \A i \in Idx(r) :
      IsResp(log[r][i], "apply", {"fail"}) =>
        /\ \E j \in Idx(r) : j > i /\ log[r][j].ev = "alert"
        /\ ReqsAfter(r, i) = {}
        /\ \A j \in Idx(r) : j > i => log[r][j].ev # "write"

\* C9: when analyze is answered ok=false, the step that receives the answer
\* alerts, ends the invocation, requests nothing, leaves the editor's text
\* and the edits textarea untouched and leaves the status element hidden.
AnalyzeAnsweredNotOk(r) ==
  /\ At(r, "analyze", "await_analyze")
  /\ \E j \in NewIdx(r) : IsResp(log'[r][j], "analyze", {"fail"})

C9_AnalyzeFailureHalts ==
  [][\A r \in RunIds :
       AnalyzeAnsweredNotOk(r) =>
         /\ run'[r].pc = "done"
         /\ \E j \in NewIdx(r) : log'[r][j] = AlertEv("Analyze error")
         /\ \A j \in NewIdx(r) : log'[r][j].ev \notin {"req", "write", "panel"}
         /\ editorText' = editorText
         /\ editsPanel' = editsPanel
         /\ notify'.hidden]_vars

C9_Witness ==
  \E r \in RunIds :
    /\ run[r].kind = "analyze"
    /\ Ended(r)
    /\ \E i \in Idx(r) : IsResp(log[r][i], "analyze", {"fail"})

\* C10: a failure (ok=false or a rejected promise) of analyze, apply,
\* fix_from_crosscheck or vision_analyze is followed by an alert and by no
\* further request of the invocation.
C10_FatalFailureAlertsAndHalts ==
  \A r \in RunIds :
    \A i \in Idx(r) :
      (/\ log[r][i].ev = "resp"
       /\ log[r][i].svc \in {"analyze", "apply", "fix_from_crosscheck", "vision_analyze"}
       /\ log[r][i].out \in {"fail", "throw"})
        => /\ \E j \in Idx(r) : j > i /\ log[r][j].ev = "alert"
           /\ ReqsAfter(r, i) = {}

\* C11: in visionSubmit(), whatever answers the run request (ok, ok=false or
\* a rejected promise), the invocation goes on to request vision_analyze.
C11_RunOutcomeNeverEndsVisionSubmit ==
  \A r \in RunIds :
    run[r].kind = "visionSubmit" =>
      \A i \in Idx(r) :
        IsResp(log[r][i], "run", {"ok", "fail", "throw"}) =>
          \E j \in ReqsAfter(r, i) : log[r][j].svc = "vision_analyze"

FixOrVisionAnswered(r, j) ==
  /\ run[r].kind \in {"fixUsingCross", "analyzeWithVision"}
  /\ j \in NewIdx(r)
  /\ log'[r][j].ev = "resp"
  /\ log'[r][j].svc \in {"fix_from_crosscheck", "vision_analyze"}
  /\ log'[r][j].out = "ok"

C17_FixAndVisionChainIntoCrossCheck ==
  [][\A r \in RunIds :
       /\ \A j \in NewIdx(r) :
            FixOrVisionAnswered(r, j) =>
              /\ editorText' = (IF log'[r][j].code # 0 THEN log'[r][j].code ELSE editorText)
              /\ editsPanel' = (IF log'[r][j].edits.t # "absent"
                                THEN TextObj(log'[r][j].edits) ELSE editsPanel)
              /\ Cardinality({k \in NewIdx(r) : log'[r][k].ev = "req"}) = 1
              /\ \A k \in NewIdx(r) :
                   log'[r][k].ev = "req" =>
                     /\ k > j
                     /\ log'[r][k].svc = "crosscheck"
                     /\ log'[r][k].code = editorText'
       /\ run'[r].kind \in {"fixUsingCross", "analyzeWithVision"} =>
            /\ \A k \in 1..Len(log'[r]) : ~IsReq(log'[r][k], "apply")
            /\ Cardinality({k \in 1..Len(log'[r]) : IsReq(log'[r][k], "crosscheck")}) <= 1
     ]_vars

\* a fix answered with new code and edits, cross-checked on the new code
C17_Witness ==
  \E r \in RunIds :
    /\ run[r].kind = "fixUsingCross"
    /\ \E i \in Idx(r) :
         /\ IsResp(log[r][i], "fix_from_crosscheck", {"ok"})
         /\ log[r][i].code # 0 /\ log[r][i].code # run[r].code
         /\ log[r][i].edits.t = "seq"
         /\ \E j \in ReqsAfter(r, i) :
              log[r][j].svc = "crosscheck" /\ log[r][j].code = log[r][i].code

\* C18: an invocation that is in flight, has shown a status message and was
\* never overlapped by another invocation sees the status element visible;
\* with an overlap the other invocation's hideNotify() breaks this (the
\* witness).
HasShown(r) == \E i \in Idx(r) : log[r][i].ev = "show"

C18_SignalVisibleWhileAloneInFlight ==
  \A r \in RunIds :
    (InFlight(r) /\ HasShown(r) /\ ~overlapped[r]) => ~notify.hidden

\* r still awaits a response, has shown its message, and the status element
\* was hidden by the hideNotify() of the invocation that finished first
C18_Witness ==
  \E r \in RunIds : \E q \in RunIds \ {r} :
    /\ InFlight(r) /\ HasShown(r) /\ overlapped[r]
    /\ Ended(q) /\ log[q][Len(log[q])].ev = "hide"
    /\ notify.hidden

\* C19: every request that carries code carries the editor's text as it is
\* when the request is issued.
CodeRequests == {"analyze", "apply", "crosscheck", "fix_from_crosscheck",
                 "vision_analyze", "run"}

C19_RequestsCarryCurrentText ==
  [][\A r \in RunIds : \A j \in NewIdx(r) :
       (log'[r][j].ev = "req" /\ log'[r][j].svc \in CodeRequests)
         => log'[r][j].code = editorText']_vars

\* C20: within one invocation each service is requested at most once and the
\* editor's text is written at most once; and, every awaited promise settling,
\* an invocation that is in flight eventually ends.
Services == {"analyze", "apply", "crosscheck", "fix_from_crosscheck",
             "vision_analyze", "run"}

C20_NoRetryAndTermination ==
  /\ [](\A r \in RunIds :
         /\ \A svc \in Services :
              Cardinality({i \in Idx(r) : IsReq(log[r][i], svc)}) <= 1
         /\ Cardinality({i \in Idx(r) : log[r][i].ev = "write"}) <= 1)
  /\ \A r \in RunIds : InFlight(r) ~> Ended(r)

\* an invocation that asked three services, wrote once and has ended
C20_Witness ==
  \E r \in RunIds :
    /\ Ended(r)
    /\ Cardinality({i \in Idx(r) : log[r][i].ev = "req"}) = 3
    /\ Cardinality({i \in Idx(r) : log[r][i].ev = "write"}) = 1

\* C12: visionSubmit() with no screenshot captured asks run and then
\* vision_analyze with a null image; when that answers ok without edits, the
\* invocation has requested neither apply nor crosscheck, leaves the editor's
\* text alone, and the step leaves the status element visible with
\* 'No changes suggested from vision.'.
NoEditsFromVision(r, j) ==
  /\ run[r].kind = "visionSubmit"
  /\ run[r].image = 0
  /\ j \in NewIdx(r)
  /\ IsResp(log'[r][j], "vision_analyze", {"ok"})
  /\ ~(log'[r][j].edits.t = "seq" /\ Len(log'[r][j].edits.items) > 0)

NoEditsFromVisionQuiet(r) ==
  /\ \E i, k \in 1..Len(log'[r]) :
       /\ i < k
       /\ IsReq(log'[r][i], "run")
       /\ IsReq(log'[r][k], "vision_analyze") /\ log'[r][k].image = 0
  /\ \A k \in 1..Len(log'[r]) :
       ~IsReq(log'[r][k], "apply") /\ ~IsReq(log'[r][k], "crosscheck")
  /\ editorText' = editorText

C12_NoEditsFromVisionIsShown ==
  [][\A r \in RunIds : \A j \in NewIdx(r) :
       NoEditsFromVision(r, j) =>
         /\ NoEditsFromVisionQuiet(r)
         /\ ~notify'.hidden
         /\ notify'.text = "No changes suggested from vision."]_vars

\* the part of C12 the handler does keep
C12_NoEditsFromVisionChangesNothing ==
  [][\A r \in RunIds : \A j \in NewIdx(r) :
       NoEditsFromVision(r, j) => NoEditsFromVisionQuiet(r)]_vars

\* no state shows the message: line 403 shows it and line 405 hides it
\* before the handler yields
NoChangesMessageNeverVisible ==
  ~(~notify.hidden /\ notify.text = "No changes suggested from vision.")

\* C15: when no captureScreenShot() is in flight, no capture track is live.
C15_StreamStoppedAfterCapture ==
  capture.pc = "idle" => liveTracks = 0

\* C13: what fixUsingCross reads back from the modal after
\* renderCrosscheck(r) has the overall verdict, the summary, the number and
\* order of tests and each test's name, description, status and reason of r,
\* for every report r whose strings have no blank at either end and whose
\* tests have a name.
SameReport(x, r) ==
  /\ x.overall = r.overall
  /\ x.summary = r.summary
  /\ Len(x.tests) = Len(r.tests)
  /\ \A k \in 1..Len(r.tests) :
       /\ x.tests[k].name = r.tests[k].name
       /\ x.tests[k].description = r.tests[k].description
       /\ x.tests[k].status = r.tests[k].status
       /\ x.tests[k].reason = r.tests[k].reason

NonDegenerate(r) ==
  /\ trim(r.summary) = r.summary
  /\ \A k \in 1..Len(r.tests) :
       /\ r.tests[k].name # <<>>
       /\ trim(r.tests[k].name) = r.tests[k].name
       /\ trim(r.tests[k].description) = r.tests[k].description
       /\ trim(r.tests[k].reason) = r.tests[k].reason

C13_RoundTripOfNonDegenerateReports ==
  (presenter.extracted # NoExtract /\ NonDegenerate(presenter.payload))
    => SameReport(presenter.extracted, presenter.payload)

\* C13 as stated: the same for every report
C13_RoundTripOfEveryReport ==
  presenter.extracted # NoExtract
    => SameReport(presenter.extracted, presenter.payload)

\* read back: two tests of different status, markup in a name, over a
\* report rendered earlier
C13_Witness ==
  /\ presenter.extracted # NoExtract
  /\ presenter.stage = "rendered" /\ presenter.prior # NoReport
  /\ NonDegenerate(presenter.payload)
  /\ Len(presenter.payload.tests) = 2
  /\ presenter.payload.tests[1].status = "fail"
  /\ presenter.payload.tests[2].status = "pass"
  /\ presenter.payload.tests[1].name = <<"<b>">>
  /\ presenter.payload.tests[2].reason = <<"a">>
  /\ presenter.payload.tests[2].description = <<>>

\* C14: after renderCrosscheck(r) the modal is what renderCrosscheck(r)
\* makes of the untouched page, whatever was rendered before (another report,
\* or r itself).
C14_RenderIsIdempotentAndLeakFree ==
  presenter.stage \in {"rendered", "rerendered"}
    => display = renderCrosscheck(EmptyDisplay, presenter.payload)

\* r rendered twice over an earlier report that had more tests and another
\* verdict
C14_Witness ==
  /\ presenter.stage = "rerendered"
  /\ presenter.prior # NoReport
  /\ Len(presenter.prior.tests) > Len(presenter.payload.tests)
  /\ presenter.prior.overall # presenter.payload.overall

====
